---- MODULE Spec2Model ----
(***************************************************************************)
(* single-sign: the document boundary scanner (common/src/lib.rs), the     *)
(* guest attestation program (guests/single-sign/src/main.rs) and the host *)
(* orchestrator (apps/src/bin/prove.rs), as one state machine.             *)
(*                                                                         *)
(* A blob is a sequence of bytes.  Bytes are written as strings: the five  *)
(* bytes the scanner tells apart, "{" "}" "\"" "\\" and everything else    *)
(* ("a", "b", " ", ...), and the two bytes "C3" "A9" of one two-byte       *)
(* UTF-8 character.  Rust offsets are 0-based: the byte at offset k of s   *)
(* is s[k + 1].                                                            *)
(***************************************************************************)
EXTENDS Integers, Sequences, FiniteSets, TLC

\* ---------------------------------------------------------------- bounds
MaxArbLen == 5      \* longest arbitrary scanner input, in bytes
MaxBuiltLen == 7    \* longest scanner input built from well-formed objects
MaxGuestLen == 4    \* longest arbitrary blob handed to the guest, in bytes
MaxPieces == 3      \* most pieces (documents, stray bytes) of a host blob

\* ----------------------------------------------------------------- bytes
LBrace == "{"
RBrace == "}"
Quote == "\""
Backslash == "\\"
Space == " "
Lead == "C3"
Trail == "A9"

\* The bytes of arbitrary scanner inputs: one byte per class of the
\* scanner's two `match ch` blocks, and a two-byte character.
ScanBytes == {LBrace, RBrace, Quote, Backslash, "a", Lead, Trail}

RECURSIVE SeqsUpTo(_, _)
SeqsUpTo(S, n) ==
    IF n = 0 THEN {<<>>}
    ELSE LET shorter == SeqsUpTo(S, n - 1)
         IN  shorter \cup {Append(s, c) : s \in shorter, c \in S}

\* String::from_utf8 / &str: every lead byte is followed by its trail byte
\* and no trail byte stands alone.
RECURSIVE ValidUtf8(_)
ValidUtf8(s) ==
    IF s = <<>> THEN TRUE
    ELSE IF s[1] = Lead
         THEN Len(s) >= 2 /\ s[2] = Trail /\ ValidUtf8(SubSeq(s, 3, Len(s)))
         ELSE s[1] # Trail /\ ValidUtf8(Tail(s))

\* char::len_utf8 of the character whose first byte is b
LenUtf8(b) == IF b = Lead THEN 2 ELSE 1

\* s[start..end], both offsets 0-based, end exclusive
Slice(s, start, end) == SubSeq(s, start + 1, end)

\* ---------------------------------------------------- well-formed inputs
\* The shape of a JSON text as far as braces and strings go: an object is
\* "{" items "}", an item is a character outside strings, a string or a
\* nested object; a string is "\"" body "\"" where a backslash takes the
\* next character with it.  "a" stands for every character that is neither
\* a brace, a quote nor a backslash (digits, colons, commas, letters).
StrPlain == {"a", Space, LBrace, RBrace}
Escapable == {Quote, Backslash, "a"}
ItemChars == {"a", Space}

RECURSIVE StrBody(_)
StrBody(n) ==
    IF n <= 0 THEN {<<>>}
    ELSE LET one == StrBody(n - 1)
             two == StrBody(n - 2)
         IN  {<<>>}
             \cup {<<c>> \o b : c \in StrPlain, b \in one}
             \cup (IF n >= 2
                   THEN {<<Backslash, e>> \o b : e \in Escapable, b \in two}
                        \cup {<<Lead, Trail>> \o b : b \in two}
                   ELSE {})

JsonString(n) ==
    IF n < 2 THEN {} ELSE {<<Quote>> \o b \o <<Quote>> : b \in StrBody(n - 2)}

RECURSIVE JsonItems(_, _)
RECURSIVE JsonObject(_, _)
JsonObject(chars, n) ==
    IF n < 2 THEN {}
    ELSE {<<LBrace>> \o it \o <<RBrace>> : it \in JsonItems(chars, n - 2)}

JsonItems(chars, n) ==
    IF n <= 0 THEN {<<>>}
    ELSE LET first == {<<c>> : c \in chars} \cup JsonString(n)
                      \cup JsonObject(chars, n)
         IN  {<<>>} \cup UNION {{p \o r : r \in JsonItems(chars, n - Len(p))}
                                : p \in first}

RECURSIVE Flatten(_)
Flatten(ps) == IF ps = <<>> THEN <<>> ELSE Head(ps) \o Flatten(Tail(ps))

\* Sequences of pieces, each one whitespace byte or one well-formed object,
\* of at most n bytes together.
RECURSIVE Pieces(_, _)
Pieces(chars, n) ==
    IF n <= 0 THEN {<<>>}
    ELSE LET first == {<<Space>>} \cup JsonObject(chars, n)
         IN  {<<>>} \cup UNION {{<<p>> \o r : r \in Pieces(chars, n - Len(p))}
                                : p \in first}

IsDoc(p) == p # <<>> /\ p[1] = LBrace

\* The documents of a piece sequence, in order, each with the offset it
\* was put at.
RECURSIVE DocsOf(_, _)
DocsOf(ps, at) ==
    IF ps = <<>> THEN <<>>
    ELSE LET rest == DocsOf(Tail(ps), at + Len(Head(ps)))
         IN  IF IsDoc(Head(ps))
             THEN <<[start |-> at, bytes |-> Head(ps)]>> \o rest
             ELSE rest

NotBuilt == [built |-> FALSE, docs |-> <<>>]
BuiltFrom(ps) == [built |-> TRUE, docs |-> DocsOf(ps, 0)]

ArbBlobs == {s \in SeqsUpTo(ScanBytes, MaxArbLen) : ValidUtf8(s)}
BuiltPieces == Pieces(ItemChars, MaxBuiltLen)

\* ----------------------------------------------------------------- state
VARIABLES
    blob,           \* the input text (typed_data_concat)
    intended,       \* how the input was put together: the documents meant
    idx,            \* scanner: offset of the next character
    depth,          \* scanner: brace depth
    in_string,      \* scanner: inside a string literal
    escape,         \* scanner: the next character is escaped
    current_start,  \* scanner: Option<usize>, None or [some |-> offset]
    ranges,         \* scanner: the ranges pushed so far
    scan_result,    \* scanner: "idle", "running", or the value returned
    signer,         \* the claimed signer address
    signature,      \* the signature supplied with the blob
    env,            \* guest: the Input written for the run (env::read)
    gpc,            \* guest: the statement to run next
    input,          \* guest: the Input read
    typed_data_digest,  \* guest: the digest computed from the slice
    verify_call,    \* guest: the message and mode given to verify_signature
    journal,        \* guest: what the run has committed
    pc,             \* host: the statement to run next
    digest_ranges,  \* host: the ranges the scanner returned
    i,              \* host: index of the current range, from 0
    receipt,        \* host: the receipt the prover returned
    output,         \* host: the Output decoded from the journal
    typed_data,     \* host: the document parsed for the current range
    attested,       \* host: the documents proven, verified and matched
    sent,           \* host: the contract calls submitted, in order
    confirmed,      \* host: the contract calls whose receipt came back
    exit            \* host: how main ended, or "running"

scanVars == <<idx, depth, in_string, escape, current_start, ranges, scan_result>>
inputVars == <<blob, intended, signer, signature>>
guestVars == <<env, gpc, input, typed_data_digest, verify_call, journal>>
hostVars == <<pc, digest_ranges, i, receipt, output, typed_data, attested,
              sent, confirmed, exit>>
notScan == <<inputVars, guestVars, hostVars>>
notGuest == <<inputVars, scanVars, hostVars>>
vars == <<inputVars, scanVars, guestVars, hostVars>>

None == [some |-> FALSE]
Some(v) == [some |-> TRUE, val |-> v]

Idle == [state |-> "idle"]
Running == [state |-> "running"]
Ok(rs) == [state |-> "ok", ranges |-> rs]
\* anyhow!("...{n}"): the message and the number formatted into it
Err(msg, n) == [state |-> "err", msg |-> msg, n |-> n]

\* ------------------------------------------------------------- scanner
ScanLocals(result) ==
    /\ idx = 0
    /\ depth = 0
    /\ in_string = FALSE
    /\ escape = FALSE
    /\ current_start = None
    /\ ranges = <<>>
    /\ scan_result = result

ScanStart == ScanLocals(Running)

\* depth.saturating_add(1) on a u32: the depth is at most the number of
\* characters read, so the ceiling of 2^32 - 1 (beyond TLC's integers) is
\* out of reach of every input here and the sum is exact.
SaturatingInc(d) == d + 1

\* One iteration of `for (idx, ch) in input.char_indices()`.
\* `if in_string { ... continue; }`
ScanInStringNoEscape(ch) ==
    /\ in_string
    /\ escape' = FALSE
    /\ in_string' = (ch # Quote)
    /\ idx' = idx + LenUtf8(ch)
    /\ UNCHANGED <<depth, current_start, ranges, scan_result>>

ScanInString(ch) ==
    /\ in_string
    /\ IF escape
       THEN /\ escape' = FALSE
            /\ in_string' = in_string
       ELSE /\ escape' = (ch = Backslash)
            /\ in_string' = (ch # Quote)
    /\ idx' = idx + LenUtf8(ch)
    /\ UNCHANGED <<depth, current_start, ranges, scan_result>>

\* `if depth == 0 { current_start = Some(idx); }`
StartAtEveryBrace(d, at, cur) == Some(at)

StartAtNever(d, at, cur) == cur

StartAt(d, at, cur) == IF d = 0 THEN Some(at) ELSE cur

ScanOpenBrace(ch) ==
    /\ ~in_string
    /\ ch = LBrace
    /\ current_start' = StartAt(depth, idx, current_start)
    /\ depth' = SaturatingInc(depth)
    /\ idx' = idx + LenUtf8(ch)
    /\ UNCHANGED <<in_string, escape, ranges, scan_result>>

\* `let end = idx + ch.len_utf8();`
RangeEndAtBrace(at, ch) == at

RangeEndOnePast(at, ch) == at + LenUtf8(ch) + 1

RangeEnd(at, ch) == at + LenUtf8(ch)

UnmatchedErrAfterBrace(at) == Err("Unmatched closing brace at byte", at + 1)

UnmatchedErr(at) == Err("Unmatched closing brace at byte", at)

ScanCloseBrace(ch) ==
    /\ ~in_string
    /\ ch = RBrace
    /\ IF depth = 0
       THEN /\ scan_result' = UnmatchedErr(idx)
            /\ UNCHANGED <<idx, depth, current_start, ranges>>
       ELSE /\ depth' = depth - 1
            /\ IF depth - 1 = 0
               THEN IF current_start.some
                    THEN /\ ranges' = Append(ranges,
                                [start |-> current_start.val,
                                 end |-> RangeEnd(idx, ch)])
                         /\ current_start' = None
                         /\ idx' = idx + LenUtf8(ch)
                         /\ UNCHANGED scan_result
                    ELSE /\ scan_result' =
                                Err("Missing start for JSON object ending at byte", idx)
                         /\ UNCHANGED <<idx, current_start, ranges>>
               ELSE /\ idx' = idx + LenUtf8(ch)
                    /\ UNCHANGED <<current_start, ranges, scan_result>>
    /\ UNCHANGED <<in_string, escape>>

ScanOther(ch) ==
    /\ ~in_string
    /\ ch \notin {LBrace, RBrace}
    /\ in_string' = (ch = Quote)
    /\ idx' = idx + LenUtf8(ch)
    /\ UNCHANGED <<depth, escape, current_start, ranges, scan_result>>

ScanStep ==
    /\ scan_result = Running
    /\ idx < Len(blob)
    /\ LET ch == blob[idx + 1]
       IN  \/ ScanInString(ch)
           \/ ScanOpenBrace(ch)
           \/ ScanCloseBrace(ch)
           \/ ScanOther(ch)
    /\ UNCHANGED notScan

\* After the loop: the depth check and the return.
EndResultUnchecked(d, rs) == Ok(rs)

EndResult(d, rs) ==
    IF d # 0
    THEN Err("Unclosed JSON object(s); brace depth at end is", d)
    ELSE Ok(rs)

ScanEnd ==
    /\ scan_result = Running
    /\ idx >= Len(blob)
    /\ scan_result' = EndResult(depth, ranges)
    /\ UNCHANGED <<idx, depth, in_string, escape, current_start, ranges>>
    /\ UNCHANGED notScan


\* ------------------------------------------------- digest calculator
\* typed_data::verify_digest hands the text to serde_json and alloy's
\* TypedData.  Of that outside code the model keeps this much: the text,
\* whitespace around it aside, must be one JSON object (braces matched,
\* strings closed, escapes known); the object must hold, at its top level,
\* the typed-data members exactly once; the digest is a collision-free
\* function of the text without its insignificant whitespace.  The byte
\* "t" stands for the members `types`, `primaryType`, `domain` of a
\* document whose primary type is not PermitTransferFrom, "p" for those of
\* a PermitTransferFrom document, "a" and "b" for message content.
DocChars == {"a", "b", "t", "p", Space}
SchemaBytes == {"t", "p"}

RECURSIVE LexFrom(_, _, _, _, _)
LexFrom(s, k, d, str, esc) ==
    IF k > Len(s) THEN <<>>
    ELSE LET c == s[k]
             d2 == IF str THEN d
                   ELSE IF c = LBrace THEN d + 1
                   ELSE IF c = RBrace THEN d - 1
                   ELSE d
             str2 == IF str THEN (esc \/ c # Quote) ELSE c = Quote
             esc2 == str /\ ~esc /\ c = Backslash
         IN  <<[d |-> d, str |-> str, esc |-> esc]>>
                \o LexFrom(s, k + 1, d2, str2, esc2)

\* for each byte, the depth and string state it is read in
Lex(s) == LexFrom(s, 1, 0, FALSE, FALSE)

RECURSIVE TrimLeft(_)
TrimLeft(s) == IF s # <<>> /\ s[1] = Space THEN TrimLeft(Tail(s)) ELSE s

RECURSIVE TrimRight(_)
TrimRight(s) ==
    IF s # <<>> /\ s[Len(s)] = Space
    THEN TrimRight(SubSeq(s, 1, Len(s) - 1))
    ELSE s

Trim(s) == TrimRight(TrimLeft(s))

JsonObjectText(s) ==
    LET cx == Lex(s)
        n == Len(s)
    IN  /\ n >= 2
        /\ s[1] = LBrace
        /\ s[n] = RBrace
        /\ ~cx[n].str
        /\ cx[n].d = 1
        /\ \A k \in 2..n : cx[k].d >= 1
        /\ \A k \in 1..n :
              IF cx[k].str
              THEN cx[k].esc => s[k] \in Escapable
              ELSE s[k] \in {LBrace, RBrace, Quote} \cup DocChars

SchemaMembers(s) ==
    LET cx == Lex(s)
    IN  {k \in 1..Len(s) : cx[k].d = 1 /\ ~cx[k].str /\ s[k] \in SchemaBytes}

IsTypedData(text) ==
    LET s == Trim(text)
    IN  JsonObjectText(s) /\ Cardinality(SchemaMembers(s)) = 1

RECURSIVE Canonical(_, _, _)
Canonical(s, cx, k) ==
    IF k > Len(s) THEN <<>>
    ELSE IF ~cx[k].str /\ s[k] = Space
         THEN Canonical(s, cx, k + 1)
         ELSE <<s[k]>> \o Canonical(s, cx, k + 1)

Eip712SigningHash(text) == [eip712 |-> Canonical(text, Lex(text), 1)]

PrimaryType(text) ==
    LET s == Trim(text)
        k == CHOOSE m \in SchemaMembers(s) : TRUE
    IN  IF s[k] = "p" THEN "PermitTransferFrom" ELSE "Other"

Fail == [ok |-> FALSE]
Pass(v) == [ok |-> TRUE, val |-> v]

VerifyDigest(text) ==
    IF IsTypedData(text) THEN Pass(Eip712SigningHash(text)) ELSE Fail

\* ------------------------------------------------ signature verifier
\* Keys and the addresses they control; keccak256 and ECDSA recovery are
\* taken as ideal: a prehash is the record of what was hashed, a signature
\* the record of the key and the prehash it was made over, and recovery
\* from any other prehash gives an address nobody holds the key of.
Keys == {"k1", "k2"}
AddressOf(k) == IF k = "k1" THEN "A1" ELSE "A2"
Unowned == "Ax"

Prehash(mode, message) ==
    [scheme |-> IF mode = "Raw32" THEN "raw" ELSE "keccak256",
     prefix |-> IF mode = "Personal"
                THEN <<"\\x19Ethereum Signed Message:\\n", Len(message)>>
                ELSE <<"", 0>>,
     msg |-> message]

Sign(k, h) == [wellformed |-> TRUE, key |-> k, prehash |-> h]
Malformed == [wellformed |-> FALSE, key |-> "k1", prehash |-> Prehash("Keccak", <<>>)]

RecoverAddressFromPrehash(sig, h) ==
    IF ~sig.wellformed THEN Fail
    ELSE IF sig.prehash = h THEN Pass(AddressOf(sig.key))
    ELSE Pass(Unowned)

Raw32Len == 32

VerifySignature(message, sig, expected, mode) ==
    IF mode = "Raw32" /\ Len(message) # Raw32Len THEN Fail
    ELSE LET recovered == RecoverAddressFromPrehash(sig, Prehash(mode, message))
         IN  IF ~recovered.ok THEN Fail
             ELSE IF recovered.val # expected THEN Fail
             ELSE Pass(TRUE)

\* ------------------------------------------------------- guest program
\* guests/single-sign/src/main.rs, the program the host proves;
\* methods/guest/src/main.rs is the same program statement for statement.
MakeInput(sgn, sig, bytes, range) ==
    [signer |-> sgn, signature |-> sig, typed_data_concat |-> bytes,
     digest_range |-> range]

MakeOutput(sgn, dig) == [signer |-> sgn, digest |-> dig]

GuestLocals(pcv, e) ==
    /\ env = e
    /\ gpc = pcv
    /\ input = None
    /\ typed_data_digest = None
    /\ verify_call = None
    /\ journal = <<>>

\* let input: Input = env::read();
GuestRead ==
    /\ gpc = "read"
    /\ env.some
    /\ input' = Some(env.val)
    /\ gpc' = "digest"
    /\ UNCHANGED <<env, typed_data_digest, verify_call, journal>>
    /\ UNCHANGED notGuest

\* &bytes[start..end] panics when start > end or end > bytes.len()
SliceClamped(bytes, range) ==
    LET e == IF range.end > Len(bytes) THEN Len(bytes) ELSE range.end
    IN  Pass(Slice(bytes, range.start, e))

SliceChecked(bytes, range) ==
    IF range.start <= range.end /\ range.end <= Len(bytes)
    THEN Pass(Slice(bytes, range.start, range.end))
    ELSE Fail

\* String::from_utf8(..).unwrap()
FromUtf8(bytes) == IF ValidUtf8(bytes) THEN Pass(bytes) ELSE Fail

\* the slice, the text made of it and its digest: the first failure panics
GuestDigestOf(inp) ==
    LET sl == SliceChecked(inp.typed_data_concat, inp.digest_range)
    IN  IF ~sl.ok THEN Fail
        ELSE LET text == FromUtf8(sl.val)
             IN  IF ~text.ok THEN Fail ELSE VerifyDigest(text.val)

GuestDigest ==
    /\ gpc = "digest"
    /\ LET r == GuestDigestOf(input.val)
       IN  IF r.ok
           THEN /\ typed_data_digest' = Some(r.val)
                /\ gpc' = "verify"
           ELSE /\ typed_data_digest' = typed_data_digest
                /\ gpc' = "aborted"
    /\ UNCHANGED <<env, input, verify_call, journal>>
    /\ UNCHANGED notGuest

\* the message and the mode the guest has the signature checked over
GuestVerifyCallSliced(inp) ==
    [message |-> Slice(inp.typed_data_concat, inp.digest_range.start,
                       inp.digest_range.end),
     mode |-> "Personal"]

GuestVerifyCall(inp) ==
    [message |-> inp.typed_data_concat, mode |-> "Personal"]

\* .expect("Invalid signature")
ExpectAnything(r) == TRUE

Expect(r) == r.ok

GuestVerify ==
    /\ gpc = "verify"
    /\ LET call == GuestVerifyCall(input.val)
           r == VerifySignature(call.message, input.val.signature,
                                input.val.signer, call.mode)
       IN  /\ verify_call' = Some(call)
           /\ gpc' = IF Expect(r) THEN "commit" ELSE "aborted"
    /\ UNCHANGED <<env, input, typed_data_digest, journal>>
    /\ UNCHANGED notGuest

GuestCommit ==
    /\ gpc = "commit"
    /\ journal' = Append(journal,
                         MakeOutput(input.val.signer, typed_data_digest.val))
    /\ gpc' = "done"
    /\ UNCHANGED <<env, input, typed_data_digest, verify_call>>
    /\ UNCHANGED notGuest

GuestStep == GuestRead \/ GuestDigest \/ GuestVerify \/ GuestCommit


\* --------------------------------------------------- blobs of documents
\* The pieces the host's input files are put together from: two typed-data
\* documents of different primary type, an object that is no typed data, a
\* stray closing brace, a stray opening brace and a whitespace byte.
DocOther == <<LBrace, "t", "a", RBrace>>
DocPermit == <<LBrace, "p", "a", RBrace>>
DocNoSchema == <<LBrace, "a", RBrace>>
\* a permit whose message lacks the members the host reads from it
DocPermitBare == <<LBrace, "p", RBrace>>
Catalogue ==
    {DocOther, DocPermit, DocNoSchema, DocPermitBare,
     <<RBrace>>, <<LBrace>>, <<Space>>}
HostPieces == SeqsUpTo(Catalogue, MaxPieces)

\* ---------------------------------------------------------------- host
StillRunning == [kind |-> "running", at |-> ""]
Returned(kind, at) == [kind |-> kind, at |-> at]

HostLocals(pcv) ==
    /\ pc = pcv
    /\ digest_ranges = <<>>
    /\ i = 0
    /\ receipt = None
    /\ output = None
    /\ typed_data = None
    /\ attested = <<>>
    /\ sent = <<>>
    /\ confirmed = <<>>
    /\ exit = StillRunning

\* a step that ends main: `?` returns Err, unwrap/expect/assert panic
HostEnds(kind, at) ==
    /\ pc' = "exit"
    /\ exit' = Returned(kind, at)

\* fs::read, String::from_utf8(..).unwrap(), the call of the scanner
HostStart ==
    /\ pc = "start"
    /\ IF ValidUtf8(blob)
       THEN /\ scan_result' = Running
            /\ pc' = "scan"
            /\ UNCHANGED exit
       ELSE /\ HostEnds("panic", "from_utf8")
            /\ UNCHANGED scan_result
    /\ UNCHANGED <<idx, depth, in_string, escape, current_start, ranges>>
    /\ UNCHANGED <<digest_ranges, i, receipt, output, typed_data, attested,
                   sent, confirmed>>
    /\ UNCHANGED <<inputVars, guestVars>>

\* `find_concatenated_json_ranges(..)?`: the ranges, or the error returned
ScanRangesOrPartial(res) ==
    IF res.state = "ok" THEN Pass(res.ranges) ELSE Pass(ranges)

ScanRangesOrErr(res) ==
    IF res.state = "ok" THEN Pass(res.ranges) ELSE Fail

HostScanned ==
    /\ pc = "scan"
    /\ scan_result.state \in {"ok", "err"}
    /\ IF ScanRangesOrErr(scan_result).ok
       THEN /\ digest_ranges' = ScanRangesOrErr(scan_result).val
            /\ pc' = "loop"
            /\ UNCHANGED exit
       ELSE /\ HostEnds("err", "find_concatenated_json_ranges")
            /\ UNCHANGED digest_ranges
    /\ UNCHANGED <<i, receipt, output, typed_data, attested, sent, confirmed>>
    /\ UNCHANGED <<inputVars, scanVars, guestVars>>

\* `for (i, range) in digest_ranges.iter().enumerate()`, and Ok(()) after it
MoreRangesButLast(n, rs) == n + 1 < Len(rs)

MoreRanges(n, rs) == n < Len(rs)

HostLoop ==
    /\ pc = "loop"
    /\ IF MoreRanges(i, digest_ranges)
       THEN /\ pc' = "build"
            /\ UNCHANGED exit
       ELSE HostEnds("ok", "")
    /\ UNCHANGED <<digest_ranges, i, receipt, output, typed_data, attested,
                   sent, confirmed>>
    /\ UNCHANGED <<inputVars, scanVars, guestVars>>

\* the range of the i-th iteration
FirstRange(rs, n) == rs[1]

CurrentRange(rs, n) == rs[n + 1]

\* Input {..} and ExecutorEnv::builder().write(&input): a fresh guest run
HostBuild ==
    /\ pc = "build"
    /\ env' = Some(MakeInput(signer, signature, blob,
                             CurrentRange(digest_ranges, i)))
    /\ gpc' = "read"
    /\ input' = None
    /\ typed_data_digest' = None
    /\ verify_call' = None
    /\ journal' = <<>>
    /\ pc' = "prove"
    /\ UNCHANGED <<digest_ranges, i, receipt, output, typed_data, attested,
                   sent, confirmed, exit>>
    /\ UNCHANGED <<inputVars, scanVars>>

\* What prove_with_ctx can come back with once the guest has ended.  A
\* guest that panicked gives Err.  Otherwise the proving subsystem, which
\* is outside this program, fails, or returns a receipt: the honest one
\* (the guest's journal under a seal that verifies), one whose seal does
\* not verify, or - a subsystem compromised or run in development mode -
\* one that verifies over a journal the guest did not write.
OtherDigest == [eip712 |-> <<>>]
ReceiptOf(j, seal_ok, kind) == [journal |-> j, seal_ok |-> seal_ok, inner |-> kind]

ProverReturns(j) ==
    {Fail} \cup
    {Pass(ReceiptOf(j, TRUE, k)) : k \in {"groth16", "fake"}} \cup
    {Pass(ReceiptOf(j, FALSE, "groth16"))} \cup
    {Pass(ReceiptOf(<<MakeOutput(j[1].signer, OtherDigest)>>, TRUE, "groth16"))}

\* prover.prove_with_ctx(..).unwrap()
HostProved ==
    /\ pc = "prove"
    /\ gpc \in {"done", "aborted"}
    /\ IF gpc = "aborted"
       THEN /\ HostEnds("panic", "prove_with_ctx")
            /\ UNCHANGED receipt
       ELSE \E r \in ProverReturns(journal) :
              IF r.ok
              THEN /\ receipt' = Some(r.val)
                   /\ pc' = "decode"
                   /\ UNCHANGED exit
              ELSE /\ HostEnds("panic", "prove_with_ctx")
                   /\ UNCHANGED receipt
    /\ UNCHANGED <<digest_ranges, i, output, typed_data, attested, sent, confirmed>>
    /\ UNCHANGED <<inputVars, scanVars, guestVars>>

\* receipt.journal.decode().unwrap()
HostDecode ==
    /\ pc = "decode"
    /\ IF receipt.val.journal # <<>>
       THEN /\ output' = Some(receipt.val.journal[1])
            /\ pc' = "verify"
            /\ UNCHANGED exit
       ELSE /\ HostEnds("panic", "journal.decode")
            /\ UNCHANGED output
    /\ UNCHANGED <<digest_ranges, i, receipt, typed_data, attested, sent, confirmed>>
    /\ UNCHANGED <<inputVars, scanVars, guestVars>>

\* receipt.verify(guests::SINGLE_SIGN_ID).unwrap()
SealUnverified(r) == TRUE

SealVerifies(r) == r.seal_ok

HostVerify ==
    /\ pc = "verify"
    /\ IF SealVerifies(receipt.val)
       THEN /\ pc' = "recompute"
            /\ UNCHANGED exit
       ELSE HostEnds("panic", "receipt.verify")
    /\ UNCHANGED <<digest_ranges, i, receipt, output, typed_data, attested,
                   sent, confirmed>>
    /\ UNCHANGED <<inputVars, scanVars, guestVars>>

\* serde_json::from_str(..).unwrap() of the range's slice and
\* eip712_signing_hash().unwrap(): the host's own digest
HostDigestOf(bytes, range) ==
    LET sl == SliceChecked(bytes, range)
    IN  IF ~sl.ok THEN Fail
        ELSE LET text == FromUtf8(sl.val)
             IN  IF ~text.ok THEN Fail
                 ELSE IF ~IsTypedData(text.val) THEN Fail
                 ELSE Pass([primary_type |-> PrimaryType(text.val),
                            digest |-> Eip712SigningHash(text.val)])

\* the recomputation and assert_eq!(digest, output.digest)
AssertEqSkipped(a, b) == TRUE

AssertEq(a, b) == a = b

HostRecompute ==
    /\ pc = "recompute"
    /\ LET td == HostDigestOf(blob, CurrentRange(digest_ranges, i))
       IN  IF ~td.ok
           THEN /\ HostEnds("panic", "typed_data")
                /\ UNCHANGED <<typed_data, attested>>
           ELSE IF ~AssertEq(td.val.digest, output.val.digest)
           THEN /\ HostEnds("panic", "assert_eq")
                /\ typed_data' = Some(td.val)
                /\ UNCHANGED attested
           ELSE /\ typed_data' = Some(td.val)
                /\ attested' = Append(attested,
                                  [index |-> i, output |-> output.val,
                                   receipt |-> receipt.val,
                                   input |-> env.val])
                /\ pc' = "dispatch"
                /\ UNCHANGED exit
    /\ UNCHANGED <<digest_ranges, i, receipt, output, sent, confirmed>>
    /\ UNCHANGED <<inputVars, scanVars, guestVars>>

\* `if typed_data.primary_type == "PermitTransferFrom"`: the seal, the
\* permit and permitTransferFrom(..).send().await.unwrap()
SendOutcomes == {"sent", "refused"}

AnyPrimaryType(td) == TRUE

Recognized(td) == td.primary_type = "PermitTransferFrom"

\* typed_data.message["permitted"]["token"].as_str().unwrap() and the like:
\* the members are read from the message content of the document
PermitFields(bytes, range) ==
    IF \E k \in (range.start + 1)..range.end :
          k <= Len(bytes) /\ bytes[k] \in {"a", "b"}
    THEN Pass("permit") ELSE Fail

\* after send().await: tx.get_receipt().await comes before the next document
NextWithoutReceipt == "loop"

NextAfterSend == "confirm"

HostSend ==
    /\ pc = "dispatch"
    /\ IF Recognized(typed_data.val)
       THEN IF receipt.val.inner # "groth16"
            THEN /\ HostEnds("err", "groth16")
                 /\ UNCHANGED <<i, sent>>
            ELSE IF ~PermitFields(blob, CurrentRange(digest_ranges, i)).ok
            THEN /\ HostEnds("panic", "permit")
                 /\ UNCHANGED <<i, sent>>
            ELSE \E o \in SendOutcomes :
                   IF o = "sent"
                   THEN /\ sent' = Append(sent, i)
                        /\ pc' = NextAfterSend
                        /\ UNCHANGED <<i, exit>>
                   ELSE /\ HostEnds("panic", "send")
                        /\ UNCHANGED <<i, sent>>
       ELSE /\ i' = i + 1
            /\ pc' = "loop"
            /\ UNCHANGED <<sent, exit>>
    /\ UNCHANGED <<digest_ranges, receipt, output, typed_data, attested, confirmed>>
    /\ UNCHANGED <<inputVars, scanVars, guestVars>>

\* tx.get_receipt().await.unwrap()
ConfirmOutcomes == {"receipt", "lost"}

HostConfirm ==
    /\ pc = "confirm"
    /\ \E o \in ConfirmOutcomes :
         IF o = "receipt"
         THEN /\ confirmed' = Append(confirmed, i)
              /\ i' = i + 1
              /\ pc' = "loop"
              /\ UNCHANGED exit
         ELSE /\ HostEnds("panic", "get_receipt")
              /\ UNCHANGED <<i, confirmed>>
    /\ UNCHANGED <<digest_ranges, receipt, output, typed_data, attested, sent>>
    /\ UNCHANGED <<inputVars, scanVars, guestVars>>

\* The file is the concatenation of some pieces; the signature was made
\* by one of the keys over the file as it was when signed, which is the
\* file as it is now or the file before one byte of message content was
\* flipped ("a" became "b").
Tampered(orig) ==
    {[orig EXCEPT ![k] = "b"] : k \in {m \in 1..Len(orig) : orig[m] = "a"}}

SignModes == {"Personal", "Keccak"}

RECURSIVE DocsIn(_, _)
DocsIn(bytes, ds) ==
    IF ds = <<>> THEN <<>>
    ELSE <<[start |-> Head(ds).start,
            bytes |-> Slice(bytes, Head(ds).start,
                            Head(ds).start + Len(Head(ds).bytes))]>>
         \o DocsIn(bytes, Tail(ds))

Init ==
    /\ \E ps \in HostPieces :
         LET orig == Flatten(ps)
         IN  /\ blob \in {orig} \cup Tampered(orig)
             /\ intended = [built |-> \A k \in 1..Len(ps) : ps[k] \notin {<<RBrace>>, <<LBrace>>},
                            docs |-> DocsIn(blob, DocsOf(ps, 0))]
             /\ \E k \in Keys, m \in SignModes :
                  signature = Sign(k, Prehash(m, orig))
    /\ signer = "A1"
    /\ ScanLocals(Idle)
    /\ GuestLocals("idle", None)
    /\ HostLocals("start")

Next ==
    \/ HostStart
    \/ ScanStep
    \/ ScanEnd
    \/ HostScanned
    \/ HostLoop
    \/ HostBuild
    \/ GuestStep
    \/ HostProved
    \/ HostDecode
    \/ HostVerify
    \/ HostRecompute
    \/ HostSend
    \/ HostConfirm

Spec == Init /\ [][Next]_vars

\* ------------------------------------------------- scanner on its own
ScanInit ==
    /\ \/ /\ blob \in ArbBlobs
          /\ intended = NotBuilt
       \/ \E ps \in BuiltPieces :
            /\ blob = Flatten(ps)
            /\ intended = BuiltFrom(ps)
    /\ ScanStart
    /\ signer = "A1"
    /\ signature = Malformed
    /\ GuestLocals("idle", None)
    /\ HostLocals("idle")

ScanNext == ScanStep \/ ScanEnd

ScanSpec == ScanInit /\ [][ScanNext]_vars


\* ---------------------------------------------------- guest on its own
\* The Input is whatever an adversarial host writes: any bytes (valid
\* UTF-8 or not), any range (out of bounds and inverted included), a
\* signature by the claimed signer or by someone else, over the whole blob
\* or over the slice, in Personal mode or not, or no signature at all.
GuestBytes == {LBrace, RBrace, "t", Trail}
GuestBlobs == SeqsUpTo(GuestBytes, MaxGuestLen)
                 \cup {Flatten(ps) : ps \in HostPieces}

SliceOrEmpty(bytes, range) ==
    IF range.start <= range.end /\ range.end <= Len(bytes)
    THEN Slice(bytes, range.start, range.end)
    ELSE <<>>

GuestSignatures(bytes, range) ==
    {Sign("k1", Prehash("Personal", bytes)),
     Sign("k2", Prehash("Personal", bytes)),
     Sign("k1", Prehash("Keccak", bytes)),
     Sign("k1", Prehash("Personal", SliceOrEmpty(bytes, range))),
     Malformed}

GuestInit ==
    /\ blob \in GuestBlobs
    /\ intended = NotBuilt
    /\ signer \in {"A1", Unowned}
    /\ \E s \in 0..(Len(blob) + 1), e \in 0..(Len(blob) + 1) :
         /\ signature \in GuestSignatures(blob, [start |-> s, end |-> e])
         /\ GuestLocals("read", Some(MakeInput(signer, signature, blob,
                                               [start |-> s, end |-> e])))
    /\ ScanLocals(Idle)
    /\ HostLocals("idle")

GuestNext == GuestStep

GuestSpec == GuestInit /\ [][GuestNext]_vars

\* -------------------------------------------------------- guest claims
InBounds(inp) ==
    /\ inp.digest_range.start <= inp.digest_range.end
    /\ inp.digest_range.end <= Len(inp.typed_data_concat)

SliceOfInput(inp) ==
    Slice(inp.typed_data_concat, inp.digest_range.start, inp.digest_range.end)

\* the slice exists, is text and is typed data
DigestCheckPasses(inp) ==
    /\ InBounds(inp)
    /\ ValidUtf8(SliceOfInput(inp))
    /\ IsTypedData(SliceOfInput(inp))

\* the address recovered from the signature and the Personal-mode prehash
\* of the whole blob is the claimed signer
SignatureCheckPasses(inp) ==
    RecoverAddressFromPrehash(inp.signature,
            Prehash("Personal", inp.typed_data_concat)) = Pass(inp.signer)

GuestEnded == gpc \in {"done", "aborted"}

\* C1: the guest commits an Output only for an Input on which both checks
\* pass, and then exactly Output{claimed signer, digest of the slice}; on
\* every Input on which a check fails (range out of bounds or inverted,
\* slice not text, slice not typed data, signature not verifying) the run
\* ends aborted with nothing committed.
C1_CommitOnlyIfBothChecksPass ==
    /\ journal # <<>> =>
          /\ DigestCheckPasses(env.val)
          /\ SignatureCheckPasses(env.val)
          /\ journal = <<MakeOutput(env.val.signer,
                                    Eip712SigningHash(SliceOfInput(env.val)))>>
    /\ (GuestEnded /\ ~(DigestCheckPasses(env.val) /\ SignatureCheckPasses(env.val)))
          => (gpc = "aborted" /\ journal = <<>>)
    /\ gpc = "aborted" => journal = <<>>

\* the digest check passed on a proper sub-range, the signature check failed
C1_Witness ==
    /\ gpc = "aborted"
    /\ journal = <<>>
    /\ DigestCheckPasses(env.val)
    /\ SliceOfInput(env.val) # env.val.typed_data_concat
    /\ ~SignatureCheckPasses(env.val)
    /\ env.val.signature.wellformed
    /\ env.val.signature.prehash = Prehash("Personal", SliceOfInput(env.val))

\* C2: whenever the guest has the signature checked, the message is the
\* whole blob and the mode is Personal, whatever the range; so a run
\* commits only under a Personal-mode signature over the whole blob, and a
\* signature over the sliced document alone does not pass.
C2_VerifiesWholeBlobPersonal ==
    /\ verify_call.some =>
          /\ verify_call.val.message = env.val.typed_data_concat
          /\ verify_call.val.mode = "Personal"
    /\ (journal # <<>> /\ env.val.signer # Unowned) =>
          /\ env.val.signature.prehash
                = Prehash("Personal", env.val.typed_data_concat)
          /\ AddressOf(env.val.signature.key) = env.val.signer

\* two documents in the blob, the range is the second one, the run commits
C2_Witness ==
    /\ gpc = "done"
    /\ journal # <<>>
    /\ verify_call.some
    /\ env.val.digest_range.start > 0
    /\ IsTypedData(Slice(env.val.typed_data_concat, 0, env.val.digest_range.start))
    /\ verify_call.val.message # SliceOfInput(env.val)


\* --------------------------------------------------- end-to-end claims
\* the blob is two typed-data documents (whitespace around them or not)
TwoTypedDocs ==
    /\ intended.built
    /\ Len(intended.docs) = 2
    /\ \A j \in 1..2 : IsTypedData(intended.docs[j].bytes)

DocDigest(j) == Eip712SigningHash(intended.docs[j].bytes)

\* signed once, by A1 = the claimed signer, Personal mode, over the blob as it is
SignedWholeByA ==
    /\ signer = AddressOf("k1")
    /\ signature = Sign("k1", Prehash("Personal", blob))

\* C3: for two typed-data documents D1, D2 signed once over the whole blob
\* by the claimed signer A in Personal mode, the scanner returns exactly 2
\* ranges, the guest run for the i-th range commits Output{A, digest(Di)},
\* the host's own digest never differs from the one the guest committed,
\* and a run that returns Ok has attested both documents with those values.
C3_EndToEnd ==
    (TwoTypedDocs /\ SignedWholeByA) =>
        /\ scan_result.state \in {"ok", "err"} =>
              (scan_result.state = "ok" /\ Len(scan_result.ranges) = 2)
        /\ (pc = "prove" /\ gpc \in {"done", "aborted"}) =>
              /\ gpc = "done"
              /\ journal = <<MakeOutput(signer, DocDigest(i + 1))>>
        /\ exit.at = "assert_eq" => receipt.val.journal # journal
        /\ exit.at # "typed_data"
        /\ \A j \in 1..Len(attested) :
              /\ attested[j].index = j - 1
              /\ attested[j].output = MakeOutput(signer, DocDigest(j))
              /\ attested[j].receipt.journal = <<attested[j].output>>
        /\ exit.kind = "ok" => Len(attested) = 2

C3_Witness ==
    /\ TwoTypedDocs
    /\ SignedWholeByA
    /\ exit.kind = "ok"
    /\ Len(attested) = 2
    /\ attested[1].output.digest # attested[2].output.digest
    /\ attested[2].output = MakeOutput("A1", DocDigest(2))

\* the blob is two typed-data documents, signed by A1 over the whole blob
\* in Personal mode before one byte of D2 was flipped
TamperedD2 ==
    /\ TwoTypedDocs
    /\ signer = AddressOf("k1")
    /\ signature.key = "k1"
    /\ signature.prehash = Prehash("Personal", signature.prehash.msg)
    /\ Len(signature.prehash.msg) = Len(blob)
    /\ \E k \in 1..Len(blob) :
         /\ k > intended.docs[2].start
         /\ k <= intended.docs[2].start + Len(intended.docs[2].bytes)
         /\ signature.prehash.msg[k] # blob[k]
         /\ \A m \in (1..Len(blob)) \ {k} : signature.prehash.msg[m] = blob[m]

\* C4 as claimed: with a byte of D2 flipped and the signature left alone,
\* no attestation for D2, and D1 unaffected: its guest run commits
\* Output{A, digest(D1)}.
C4_AsClaimed ==
    TamperedD2 =>
        /\ \A j \in 1..Len(attested) : attested[j].index # 1
        /\ (pc = "prove" /\ i = 0 /\ gpc \in {"done", "aborted"}) =>
              /\ gpc = "done"
              /\ journal = <<MakeOutput(signer, DocDigest(1))>>

\* C4 as the code has it: with a byte of D2 flipped and the signature left
\* alone, no attestation is produced for D2 and none for D1: the signature
\* is checked over the whole blob, so the guest run for D1 aborts at the
\* signature check and main panics at the first document.
C4_TamperingVoidsEveryDocument ==
    TamperedD2 =>
        /\ journal = <<>>
        /\ attested = <<>>
        /\ i = 0
        /\ gpc \in {"done", "aborted"} => gpc = "aborted"
        /\ pc = "exit" => exit = Returned("panic", "prove_with_ctx")

C4_Witness ==
    /\ TamperedD2
    /\ pc = "exit"
    /\ exit = Returned("panic", "prove_with_ctx")
    /\ i = 0
    /\ gpc = "aborted"
    /\ typed_data_digest = Some(DocDigest(1))
    /\ verify_call.some

\* ------------------------------------------------------ scanner claims
ScanOk == scan_result.state = "ok"
ScanErr(msg) == scan_result.state = "err" /\ scan_result.msg = msg
NDocs == Len(intended.docs)

\* C5: an input made of exactly N well-formed objects, possibly separated
\* by whitespace, yields exactly N ranges, one per top-level object (the
\* i-th range starts where the i-th object starts), strictly increasing
\* and non-overlapping.
C5_OneRangePerObject ==
    (intended.built /\ scan_result # Running) =>
        /\ ScanOk
        /\ Len(scan_result.ranges) = NDocs
        /\ \A j \in 1..NDocs :
              scan_result.ranges[j].start = intended.docs[j].start
        /\ \A j \in 1..(NDocs - 1) :
              /\ scan_result.ranges[j].start < scan_result.ranges[j + 1].start
              /\ scan_result.ranges[j].end <= scan_result.ranges[j + 1].start

HasNested(d) == \E k \in 2..Len(d) : d[k] = LBrace

C5_Witness ==
    /\ intended.built
    /\ ScanOk
    /\ NDocs >= 2
    /\ Len(scan_result.ranges) = NDocs
    /\ \E j \in 1..NDocs : HasNested(intended.docs[j].bytes)
    /\ \E k \in 1..Len(blob) : blob[k] = Space

\* C6: slicing the blob by the i-th returned range gives the i-th document
\* it was built from, byte for byte.
C6_RoundTrip ==
    (intended.built /\ ScanOk) =>
        \A j \in 1..NDocs :
            /\ j <= Len(scan_result.ranges)
            /\ Slice(blob, scan_result.ranges[j].start, scan_result.ranges[j].end)
                 = intended.docs[j].bytes

C6_Witness ==
    /\ intended.built
    /\ ScanOk
    /\ NDocs >= 2
    /\ intended.docs[1].start > 0
    /\ HasNested(intended.docs[2].bytes)
    /\ Slice(blob, scan_result.ranges[2].start, scan_result.ranges[2].end)
         = intended.docs[2].bytes

\* C7: on every input the scanner accepts, each range lies inside the blob
\* with start <= end, and consecutive ranges do not overlap and increase
\* strictly in start.
C7_RangesInBounds ==
    ScanOk =>
        /\ \A j \in 1..Len(scan_result.ranges) :
              /\ 0 <= scan_result.ranges[j].start
              /\ scan_result.ranges[j].start <= scan_result.ranges[j].end
              /\ scan_result.ranges[j].end <= Len(blob)
        /\ \A j \in 1..(Len(scan_result.ranges) - 1) :
              /\ scan_result.ranges[j].start < scan_result.ranges[j + 1].start
              /\ scan_result.ranges[j].end <= scan_result.ranges[j + 1].start

C7_Witness ==
    /\ ~intended.built
    /\ ScanOk
    /\ Len(scan_result.ranges) >= 2
    /\ in_string

\* C8: a character read inside a string literal changes neither the depth
\* nor the ranges nor the recorded start and raises no error; after a
\* backslash exactly the next character is skipped; the string ends only at
\* a quote that is not escaped.
C8_StringsAreInert ==
    [][(in_string /\ scan_result = Running /\ idx < Len(blob)) =>
         /\ depth' = depth
         /\ ranges' = ranges
         /\ current_start' = current_start
         /\ scan_result' = Running
         /\ escape => (in_string' /\ ~escape')
         /\ ~escape => (escape' <=> blob[idx + 1] = Backslash)
         /\ ~in_string' <=> (~escape /\ blob[idx + 1] = Quote)]_vars

\* in a string at depth 1, just past an escaped quote, with "}" next
C8_Witness ==
    /\ in_string
    /\ ~escape
    /\ depth = 1
    /\ idx >= 2
    /\ idx < Len(blob)
    /\ blob[idx - 1] = Backslash
    /\ blob[idx] = Quote
    /\ blob[idx + 1] = RBrace

\* C9: a "}" met outside a string at depth 0 fails the call with the
\* unmatched-closing-brace error naming that brace's offset, whatever was
\* completed before; the input "}" fails at offset 0.
C9_UnmatchedClose ==
    /\ [][(scan_result = Running /\ idx < Len(blob) /\ ~in_string
            /\ blob[idx + 1] = RBrace /\ depth = 0) =>
          scan_result' = Err("Unmatched closing brace at byte", idx)]_vars
    /\ []((blob = <<RBrace>> /\ scan_result # Running) =>
          scan_result = Err("Unmatched closing brace at byte", 0))

C9_Witness ==
    /\ ScanErr("Unmatched closing brace at byte")
    /\ scan_result.n > 0
    /\ blob[scan_result.n + 1] = RBrace
    /\ Len(ranges) >= 1

\* C10: at the end of the input with depth d # 0 the call fails with the
\* unclosed-object error reporting d; the input "{" fails with depth 1.
C10_UnclosedAtEnd ==
    /\ (scan_result # Running /\ idx >= Len(blob) /\ depth # 0) =>
          scan_result = Err("Unclosed JSON object(s); brace depth at end is", depth)
    /\ (blob = <<LBrace>> /\ scan_result # Running) =>
          scan_result = Err("Unclosed JSON object(s); brace depth at end is", 1)

C10_Witness ==
    /\ ScanErr("Unclosed JSON object(s); brace depth at end is")
    /\ scan_result.n = 2
    /\ depth = 2
    /\ Len(ranges) >= 1

\* ----------------------------------------------- claims about the host
\* the host's digest of the j-th range the scanner returned
RangeIsTypedData(j) == HostDigestOf(blob, scan_result.ranges[j]).ok

\* C11: when the scanner fails it returns the error alone, no ranges, even
\* if complete top-level objects were found before the error point; the host
\* then returns that error, having built no Input and started no proving.
C11_ScanFailureAllOrNothing ==
    scan_result.state = "err" =>
        /\ DOMAIN scan_result = {"state", "msg", "n"}
        /\ digest_ranges = <<>>
        /\ env = None
        /\ gpc = "idle"
        /\ receipt = None
        /\ attested = <<>>
        /\ pc \in {"scan", "exit"}
        /\ pc = "exit" => exit = Returned("err", "find_concatenated_json_ranges")

\* the error came after two complete objects, and the host has returned
C11_Witness ==
    /\ scan_result.state = "err"
    /\ Len(ranges) >= 2
    /\ pc = "exit"

\* C12 as claimed: if the blob has a brace error, or one of its documents
\* is not valid typed data, no proving is invoked for any document of the
\* blob and no attestation is produced for an earlier, valid document.
C12_AsClaimed ==
    (\/ scan_result.state = "err"
     \/ /\ ScanOk
        /\ \E j \in 1..Len(scan_result.ranges) : ~RangeIsTypedData(j))
    => /\ env = None
       /\ gpc = "idle"
       /\ attested = <<>>

\* the half of C12 the code keeps: a brace error precedes all proving
C12_ParseErrorFirst ==
    scan_result.state \in {"running", "err"} => (env = None /\ attested = <<>>)

\* a valid first document is attested and its call sent and confirmed before
\* the run of the second document fails at "Invalid typed data"
C12_Failure ==
    /\ ScanOk
    /\ Len(scan_result.ranges) = 2
    /\ RangeIsTypedData(1)
    /\ ~RangeIsTypedData(2)
    /\ Len(attested) = 1
    /\ confirmed = <<0>>
    /\ gpc = "aborted"
    /\ exit = Returned("panic", "prove_with_ctx")

\* the digest the host recomputes for the range of the current document
Recomputed == HostDigestOf(blob, CurrentRange(digest_ranges, i))

DigestMismatch ==
    /\ pc = "recompute"
    /\ Recomputed.ok
    /\ Recomputed.val.digest # output.val.digest

\* C13: when the digest the host recomputes for a range differs from the
\* digest of the committed Output, the run stops at that document by the
\* failed assertion: nothing is dispatched for it, it is not counted as
\* attested, and no step follows, so no later document is proven, verified
\* or dispatched.
C13_ConsistencyFaultIsFatal ==
    /\ [][DigestMismatch =>
            /\ pc' = "exit"
            /\ exit' = Returned("panic", "assert_eq")
            /\ UNCHANGED <<i, sent, confirmed, attested, env, receipt>>]_vars
    /\ [][exit.at # "assert_eq"]_vars
    /\ [](exit.at = "assert_eq" =>
            /\ pc = "exit"
            /\ \A k \in 1..Len(sent) : sent[k] < i
            /\ \A k \in 1..Len(attested) : attested[k].index < i
            /\ env.val.digest_range = CurrentRange(digest_ranges, i))

\* the fault at the second of three documents, after the first was sent
C13_Witness ==
    /\ exit = Returned("panic", "assert_eq")
    /\ Len(digest_ranges) = 3
    /\ i = 1
    /\ sent = <<0>>
    /\ Len(attested) = 1

\* documents after the current one, which the run has not reached
DocumentsRemain == i + 1 < Len(digest_ranges)

\* C14 as claimed: a failure of proving or of proof verification for
\* document i loses only document i, so the run never ends at such a
\* failure while documents after i remain to be processed.
C14_AsClaimed ==
    (pc = "exit" /\ exit.at \in {"prove_with_ctx", "receipt.verify"})
    => ~DocumentsRemain

\* the guest committed for the first of two documents, the receipt did not
\* verify, and the run ended there by panic: the second was never built
C14_Failure ==
    /\ exit = Returned("panic", "receipt.verify")
    /\ gpc = "done"
    /\ i = 0
    /\ Len(digest_ranges) = 2
    /\ env.val.digest_range = digest_ranges[1]

\* C15 as claimed: a failure of submitting or confirming the contract call
\* for a document blocks nothing but that dispatch, so the run never ends
\* at such a failure while documents after it remain to be processed.
C15_AsClaimed ==
    (pc = "exit" /\ exit.at \in {"send", "get_receipt"})
    => ~DocumentsRemain

\* the first of two documents was attested, its call was refused, and the
\* run ended there by panic: the second was never built
C15_Failure ==
    /\ exit = Returned("panic", "send")
    /\ i = 0
    /\ Len(digest_ranges) = 2
    /\ Len(attested) = 1
    /\ env.val.digest_range = digest_ranges[1]

\* the primary type of the n-th document (counted from 0) is the permit's
DocIsPermit(n) ==
    LET td == HostDigestOf(blob, digest_ranges[n + 1])
    IN  td.ok /\ td.val.primary_type = "PermitTransferFrom"

\* the contract call of the n-th document was submitted, or its submission
\* was tried and refused
DispatchAttempted(n) ==
    \/ \E k \in 1..Len(sent) : sent[k] = n
    \/ exit.at = "send" /\ i = n

\* the run is past the dispatch step of the n-th document, or has ended
PastDispatch(n) == pc # "dispatch" \/ n < i

\* C16 as claimed: for a document that passed the host's checks a dispatch
\* is made if and only if its primary type is "PermitTransferFrom".
C16_AsClaimed ==
    \A k \in 1..Len(attested) :
        PastDispatch(attested[k].index) =>
            (DispatchAttempted(attested[k].index) <=> DocIsPermit(attested[k].index))

\* C16: a dispatch is made only for a document whose primary type is
\* "PermitTransferFrom"; for any other primary type the step changes
\* nothing but the loop index; for a permit the call is submitted only if
\* the receipt is a Groth16 receipt and the permit members can be read from
\* the message, and otherwise the run ends without a dispatch.
C16_DispatchGatedByPrimaryType ==
    /\ [][pc = "dispatch" =>
            IF typed_data.val.primary_type # "PermitTransferFrom"
            THEN /\ i' = i + 1
                 /\ pc' = "loop"
                 /\ UNCHANGED <<sent, confirmed, attested, exit>>
            ELSE IF receipt.val.inner # "groth16"
            THEN exit' = Returned("err", "groth16") /\ sent' = sent
            ELSE IF ~PermitFields(blob, CurrentRange(digest_ranges, i)).ok
            THEN exit' = Returned("panic", "permit") /\ sent' = sent
            ELSE \/ sent' = Append(sent, i) /\ exit' = exit
                 \/ exit' = Returned("panic", "send") /\ sent' = sent]_vars
    /\ [](\A k \in 1..Len(sent) : DocIsPermit(sent[k]))
    /\ [](\A k \in 1..Len(attested) :
            (PastDispatch(attested[k].index) /\ DispatchAttempted(attested[k].index))
            => DocIsPermit(attested[k].index))

\* a document of another type went through without a call, then a permit
\* was sent; the run returned Ok with both attested
C16_Witness ==
    /\ exit = Returned("ok", "")
    /\ Len(attested) = 2
    /\ ~DocIsPermit(0)
    /\ DocIsPermit(1)
    /\ sent = <<1>>

\* the host's two checks of the n-th document succeeded: the receipt
\* verified against the program identity and the digests agreed
HostChecked(n) ==
    \E m \in 1..Len(attested) :
        /\ attested[m].index = n
        /\ attested[m].receipt.seal_ok
        /\ attested[m].output = attested[m].receipt.journal[1]
        /\ HostDigestOf(blob, digest_ranges[n + 1]).ok
        /\ attested[m].output.digest =
               HostDigestOf(blob, digest_ranges[n + 1]).val.digest

\* C17: a call is submitted only at the dispatch step of the current
\* document, after its receipt verified against the program identity and
\* the host's recomputed digest equalled Output.digest; no call is ever
\* made on an Output that is unverified or does not match.
C17_DispatchOnlyAfterHostChecks ==
    /\ [][sent' # sent =>
            /\ pc = "dispatch"
            /\ sent' = Append(sent, i)
            /\ receipt.val.seal_ok
            /\ output.val = receipt.val.journal[1]
            /\ Recomputed.ok
            /\ Recomputed.val.digest = output.val.digest
            /\ HostChecked(i)]_vars
    /\ [](\A k \in 1..Len(sent) : HostChecked(sent[k]))
    /\ [](exit.at \in {"send", "get_receipt"} => HostChecked(i))

\* the call of the second document is in flight, the first is confirmed
C17_Witness ==
    /\ pc = "confirm"
    /\ sent = <<0, 1>>
    /\ confirmed = <<0>>
    /\ HostChecked(1)

\* C18: the run returns Ok only if the scanner succeeded and, for every
\* range it returned and in its order, one Input was built from the whole
\* blob, the claimed signer, the signature and that range, a receipt was
\* produced for it and verified, and the recomputed digest matched; a run
\* that ended at a failure never returns Ok afterwards.
C18_OkMeansEveryRangeAttested ==
    /\ [](exit.kind = "ok" =>
            /\ ScanOk
            /\ digest_ranges = scan_result.ranges
            /\ i = Len(digest_ranges)
            /\ Len(attested) = Len(digest_ranges)
            /\ \A j \in 1..Len(attested) :
                 /\ attested[j].index = j - 1
                 /\ attested[j].input =
                        MakeInput(signer, signature, blob, digest_ranges[j])
                 /\ HostChecked(j - 1))
    /\ [][exit = StillRunning]_vars

\* Ok after three documents
C18_Witness ==
    /\ exit = Returned("ok", "")
    /\ Len(digest_ranges) = 3
    /\ Len(attested) = 3

\* the steps of the loop body that come before the dispatch of document i
BeforeDispatch == pc \in {"build", "prove", "decode", "verify", "recompute", "dispatch"}

\* C19: calls are submitted in the order of their ranges, and the receipt
\* of each is awaited before the next document is built: at most one call
\* is unconfirmed at any time, and none while a document is being built,
\* proven or checked.
C19_DispatchesSerialized ==
    /\ Len(sent) - Len(confirmed) \in {0, 1}
    /\ confirmed = SubSeq(sent, 1, Len(confirmed))
    /\ \A k, m \in 1..Len(sent) : k < m => sent[k] < sent[m]
    /\ Len(sent) > Len(confirmed) =>
          /\ sent[Len(sent)] = i
          /\ pc = "confirm" \/ exit = Returned("panic", "get_receipt")
    /\ (pc = "loop" \/ BeforeDispatch) =>
          /\ sent = confirmed
          /\ \A k \in 1..Len(sent) : sent[k] < i

\* the third document is being proven after two confirmed calls
C19_Witness ==
    /\ pc = "prove"
    /\ i = 2
    /\ sent = <<0, 1>>
    /\ confirmed = <<0, 1>>

\* ------------------------------------- claims about the scanner, again
\* the next character is a closing brace outside a string at depth 0
StrayClose ==
    /\ idx < Len(blob)
    /\ ~in_string
    /\ blob[idx + 1] = RBrace
    /\ depth = 0

\* the input is used up with objects still open
OpenAtEnd == idx >= Len(blob) /\ depth # 0

\* C20: the call fails exactly when it meets a "}" outside a string at
\* depth 0 or reaches the end of the input with depth # 0; while depth > 0
\* a start is recorded, so the missing-start error never occurs; the string
\* state is kept at depth 0 as well, so an input that ends inside an
\* unterminated string at depth 0 returns Ok with the ranges completed
\* before the string began.
C20_FailsExactlyOnBraceImbalance ==
    /\ [][scan_result = Running =>
            (scan_result'.state = "err" <=> (StrayClose \/ OpenAtEnd))]_vars
    /\ []((scan_result = Running /\ depth > 0) => current_start.some)
    /\ [](scan_result.state = "err" =>
            /\ scan_result.msg \in
                 {"Unmatched closing brace at byte",
                  "Unclosed JSON object(s); brace depth at end is"}
            /\ StrayClose \/ OpenAtEnd)
    /\ [](ScanOk =>
            /\ idx >= Len(blob)
            /\ depth = 0
            /\ scan_result.ranges = ranges)
    /\ [][(scan_result = Running /\ in_string /\ depth = 0) =>
            /\ ranges' = ranges
            /\ depth' = 0
            /\ scan_result' = IF idx < Len(blob) THEN Running ELSE Ok(ranges)]_vars

\* Ok with one range although a "{" after a stray quote was never closed
C20_Witness ==
    /\ ScanOk
    /\ in_string
    /\ depth = 0
    /\ Len(scan_result.ranges) = 1
    /\ \E k \in 1..Len(blob), m \in 1..Len(blob) :
          /\ scan_result.ranges[1].end < k
          /\ k < m
          /\ blob[k] = Quote
          /\ blob[m] = LBrace

====
